---- MODULE Spec2Model ----
(***************************************************************************)
(* A model of the two algorithms of the repository:                        *)
(*   - the linear swap network Trotter steps                               *)
(*     (openfermion/trotter/algorithms/linear_swap_network.py), and        *)
(*   - the optimal Givens rotation network                                 *)
(*     (openfermion/primitives/optimal_givens_decomposition.py).           *)
(* Qubit lists and matrices are functions over 0..n-1, as in the source.   *)
(***************************************************************************)
EXTENDS Integers, Sequences, FiniteSets, TLC

\* ------------------------------------------------------------------------
\* Bounds of the model
\* ------------------------------------------------------------------------
MaxN == 4
MaxSteps == 3
MaxGivensN == 4

\* ------------------------------------------------------------------------
\* Part I.  Linear swap network Trotter steps
\* ------------------------------------------------------------------------
VARIABLES
    kind,              \* which of the four TrotterStep classes is in use
    n_qubits,          \* len(qubits)
    control_qubit,     \* the control_qubit argument (NoneQubit when omitted)
    n_steps,           \* number of Trotter steps the driver performs
    omit_final_swaps,  \* argument of finish
    tracked,           \* the driver's qubit list, updated by step_qubit_permutation
    qubits,            \* the local variable `qubits` of the running generator
    pc,                \* position of the driver / running generator
    order,             \* swap_network: logical index at each list position
    cursor,            \* swap_network: next entry of the pair schedule
    offset,            \* swap_network: the offset flag of the running pass
    calls,             \* interaction callback calls of the running pass
    ops,               \* operations yielded so far by the running generator
    passes,            \* swap_network invocations of the running generator
    holds,             \* physical qubit -> logical mode it currently carries
    steps_done         \* Trotter steps completed by the driver

tvars == <<kind, n_qubits, control_qubit, n_steps, omit_final_swaps, tracked,
           qubits, pc, order, cursor, offset, calls, ops, passes, holds,
           steps_done>>

\* Part II (the Givens network), declared here so that every action can
\* name the variables it leaves alone.
VARIABLES
    unitary,             \* the array object passed as `unitary`
    arg_value,           \* the matrix the caller built, before any call
    N,                   \* unitary.shape[0]
    gi,                  \* loop variable i of the elimination loop
    gj,                  \* loop variable j of the elimination loop
    right_rotations,     \* list of (gmat.T, (k, k + 1))
    left_rotations,      \* list of (gmat, (k, k + 1))
    new_left_rotations,  \* list built by the phase migration loop
    rotations,           \* list of (i, j, theta, phi)
    phases,              \* numpy.diag(unitary) read before emission
    gops,                \* operations yielded by the running call
    gpc,                 \* position of the running call
    targeted,            \* entries the elimination steps have aimed at, in order
    call_no,             \* 1 for the first call, 2 for the second
    same_array,          \* second call: TRUE if it got the array of the first
    first_ops            \* the sequence the first call yielded

gvars == <<unitary, arg_value, N, gi, gj, right_rotations, left_rotations,
           new_left_rotations, rotations, phases, gops, gpc, targeted,
           call_no, same_array, first_ops>>

vars == <<tvars, gvars>>

Abs(x) == IF x < 0 THEN 0 - x ELSE x

\* The Givens variables while only the Trotter steps are explored
GivensNotRunning ==
    /\ unitary = <<>>
    /\ arg_value = <<>>
    /\ N = 0
    /\ gi = 0
    /\ gj = 0
    /\ right_rotations = <<>>
    /\ left_rotations = <<>>
    /\ new_left_rotations = <<>>
    /\ rotations = <<>>
    /\ phases = <<>>
    /\ gops = <<>>
    /\ gpc = "off"
    /\ targeted = <<>>
    /\ call_no = 0
    /\ same_array = FALSE
    /\ first_ops = <<>>

Kinds == {"symmetric", "asymmetric", "controlled_symmetric",
          "controlled_asymmetric"}

SymmetricKinds == {"symmetric", "controlled_symmetric"}

AsymmetricKinds == {"asymmetric", "controlled_asymmetric"}

ControlledKinds == {"controlled_symmetric", "controlled_asymmetric"}

\* Qubit handles: the line qubits are 0..n-1, the control qubit and the
\* absent value are kept apart from them.
ControlQid == 0 - 1

NoneQubit == 0 - 2

IsQid(x) == x # NoneQubit

Identity(n) == [k \in 0..(n - 1) |-> k]

\* seq[::-1]
Reversed(qs) ==
    LET n == Cardinality(DOMAIN qs)
    IN  [k \in 0..(n - 1) |-> qs[n - 1 - k]]

\* range(lo, hi, 2)
RECURSIVE RangeStep2(_, _)
RangeStep2(lo, hi) ==
    IF lo >= hi THEN <<>> ELSE <<lo>> \o RangeStep2(lo + 2, hi)

\* swap_network: the active pairs (i, i + 1) of one layer, by their i
ActivePairs(n, layer_num, off) == RangeStep2((layer_num + off) % 2, n - 1)

\* swap_network: n layers, layer after layer
RECURSIVE Layers(_, _, _)
Layers(n, off, layer_num) ==
    IF layer_num >= n THEN <<>>
    ELSE ActivePairs(n, layer_num, off) \o Layers(n, off, layer_num + 1)

Schedule(n, off) == Layers(n, off, 0)

Op(gate, scale2, term, p, q, on) ==
    [gate |-> gate, scale2 |-> scale2, term |-> term, p |-> p, q |-> q,
     on |-> on]

\* The swap gate of a fermionic swap network
SwapGate(a, b) == Op("FSWAP", 0, "none", 0 - 1, 0 - 1, <<a, b>>)

\* one_and_two_body_interaction of the four classes.  scale2 is twice the
\* factor that multiplies (coefficient * time).
Interaction(k, p, q, a, b) ==
    CASE k = "symmetric" ->
           << Op("Rxxyy", 1, "one_body_real", p, q, <<a, b>>),
              Op("Ryxxy", 1, "one_body_imag", p, q, <<a, b>>),
              Op("rot11", 0 - 2, "two_body", p, q, <<a, b>>) >>
      [] k = "controlled_symmetric" ->
           << Op("CRxxyy", 1, "one_body_real", p, q, <<control_qubit, a, b>>),
              Op("CRyxxy", 1, "one_body_imag", p, q, <<control_qubit, a, b>>),
              Op("rot111", 0 - 2, "two_body", p, q, <<control_qubit, a, b>>) >>
      [] k = "asymmetric" ->
           << Op("Rxxyy", 2, "one_body_real", p, q, <<a, b>>),
              Op("Ryxxy", 2, "one_body_imag", p, q, <<a, b>>),
              Op("rot11", 0 - 4, "two_body", p, q, <<a, b>>) >>
      [] k = "controlled_asymmetric" ->
           << Op("CRxxyy", 2, "one_body_real", p, q, <<control_qubit, a, b>>),
              Op("CRyxxy", 2, "one_body_imag", p, q, <<control_qubit, a, b>>),
              Op("rot111", 0 - 4, "two_body", p, q, <<control_qubit, a, b>>) >>

\* Variant: the second pass yields the three rotations in forward order
InteractionReverseOrder_Forward(k, p, q, a, b) == Interaction(k, p, q, a, b)

\* one_and_two_body_interaction_reverse_order of the symmetric classes
InteractionReverseOrder(k, p, q, a, b) ==
    IF k = "symmetric"
    THEN << Op("rot11", 0 - 2, "two_body", p, q, <<a, b>>),
            Op("Ryxxy", 1, "one_body_imag", p, q, <<a, b>>),
            Op("Rxxyy", 1, "one_body_real", p, q, <<a, b>>) >>
    ELSE << Op("rot111", 0 - 2, "two_body", p, q, <<control_qubit, a, b>>),
            Op("CRyxxy", 1, "one_body_imag", p, q, <<control_qubit, a, b>>),
            Op("CRxxyy", 1, "one_body_real", p, q, <<control_qubit, a, b>>) >>

\* The operation argument of the running swap_network pass; finish passes
\* none, and the default callback yields nothing.
Operation(k, at, p, q, a, b) ==
    CASE at = "pass1" -> Interaction(k, p, q, a, b)
      [] at = "pass2" -> InteractionReverseOrder(k, p, q, a, b)
      [] OTHER -> <<>>

\* Variant: the potential indexes the list as it was passed in
Potential_OnPassedList(k, qs, n, i) ==
    [j \in 1..n |->
        IF k \in ControlledKinds
        THEN Op("rot11", 0 - 2, "one_body_real", j - 1, j - 1,
                <<control_qubit, qs[n - j]>>)
        ELSE Op("rz", 0 - 2, "one_body_real", j - 1, j - 1, <<qs[n - j]>>)]

\* The one-body potential: one rotation per i in range(n_qubits), on qs[i]
RECURSIVE Potential(_, _, _, _)
Potential(k, qs, n, i) ==
    IF i >= n THEN <<>>
    ELSE << IF k \in ControlledKinds
            THEN Op("rot11", 0 - 2, "one_body_real", i, i,
                    <<control_qubit, qs[i]>>)
            ELSE Op("rz", 0 - 2, "one_body_real", i, i, <<qs[i]>>) >>
         \o Potential(k, qs, n, i + 1)

\* The phase from the constant term of the controlled classes
ConstantPhase == Op("rz", 0 - 2, "constant", 0 - 1, 0 - 1, <<control_qubit>>)

\* Variant: only the controlled symmetric class checks its control qubit
RaisesMissingControl_OneClass(k, c) ==
    k = "controlled_symmetric" /\ ~IsQid(c)

\* Variant: no class checks its control qubit
RaisesMissingControl_Never(k, c) == FALSE

\* `if not isinstance(control_qubit, cirq.Qid): raise TypeError`
RaisesMissingControl(k, c) == k \in ControlledKinds /\ ~IsQid(c)

\* Variant: the local list is not reversed after the first pass
QubitsAfterFirstPass_Kept(qs) == qs

\* `qubits = qubits[::-1]` after the first pass
QubitsAfterFirstPass(qs) == Reversed(qs)

\* Variant: no class yields a second swap_network
HasSecondPass_Never(k) == FALSE

\* The symmetric classes yield a second swap_network (offset=True)
HasSecondPass(k) == k \in SymmetricKinds

\* Variant: step_qubit_permutation returns the list unchanged
StepQubitPermutation_Kept(k, qs) == qs

\* step_qubit_permutation: the asymmetric classes reverse the list, the
\* symmetric classes inherit the default, which returns it unchanged.
StepQubitPermutation(k, qs) ==
    IF k \in AsymmetricKinds THEN Reversed(qs) ELSE qs

\* step_qubit_permutation, second component
StepControlPermutation(k, c) == IF k = "asymmetric" THEN NoneQubit ELSE c

\* Variant: finish does not look at omit_final_swaps
FinishSwaps_IgnoreOmit(k, n, omit) == k \in AsymmetricKinds /\ n % 2 = 1

\* finish: `if n_steps & 1 and not omit_final_swaps`
FinishSwaps(k, n, omit) == k \in AsymmetricKinds /\ n % 2 = 1 /\ ~omit

InPass == pc \in {"pass1", "pass2", "finish_pass"}

CurrentSchedule == Schedule(n_qubits, offset)

Exhausted == cursor > Len(CurrentSchedule)

Init ==
    /\ kind \in Kinds
    /\ n_qubits \in 1..MaxN
    /\ control_qubit \in {NoneQubit, ControlQid}
    /\ n_steps \in 0..MaxSteps
    /\ omit_final_swaps \in BOOLEAN
    /\ tracked = Identity(n_qubits)
    /\ qubits = Identity(n_qubits)
    /\ pc = "idle"
    /\ order = Identity(n_qubits)
    /\ cursor = 1
    /\ offset = 0
    /\ calls = <<>>
    /\ ops = <<>>
    /\ passes = 0
    /\ holds = Identity(n_qubits)
    /\ steps_done = 0
    /\ GivensNotRunning

\* The driver starts the next trotter_step and the generator runs up to
\* its first swap_network.
BeginTrotterStep ==
    /\ pc = "idle"
    /\ steps_done < n_steps
    /\ ops' = <<>>
    /\ calls' = <<>>
    /\ qubits' = tracked
    /\ order' = Identity(n_qubits)
    /\ cursor' = 1
    /\ offset' = 0
    /\ IF RaisesMissingControl(kind, control_qubit)
       THEN pc' = "raised" /\ passes' = 0
       ELSE pc' = "pass1" /\ passes' = 1
    /\ UNCHANGED <<kind, n_qubits, control_qubit, n_steps, omit_final_swaps,
                   tracked, holds, steps_done>>
    /\ UNCHANGED gvars

\* swap_network, one active pair: the callback on (p, q, qubits[i],
\* qubits[j]), then the swap gate, then order[i], order[j] = q, p.
SwapNetworkPair ==
    /\ InPass
    /\ ~Exhausted
    /\ LET i == CurrentSchedule[cursor]
           j == i + 1
           p == order[i]
           q == order[j]
           a == qubits[i]
           b == qubits[j]
       IN  /\ calls' = Append(calls, [p |-> p, q |-> q, a |-> a, b |-> b,
                                      ha |-> holds[a], hb |-> holds[b]])
           /\ ops' = ops \o Operation(kind, pc, p, q, a, b) \o <<SwapGate(a, b)>>
           /\ order' = [order EXCEPT ![i] = q, ![j] = p]
           /\ holds' = [holds EXCEPT ![a] = holds[b], ![b] = holds[a]]
    /\ cursor' = cursor + 1
    /\ UNCHANGED <<kind, n_qubits, control_qubit, n_steps, omit_final_swaps,
                   tracked, qubits, pc, offset, passes, steps_done>>
    /\ UNCHANGED gvars

\* After the first pass: reverse the local list, yield the one-body
\* potential, and (symmetric classes) start the second pass.
OneBodyPotential ==
    /\ pc = "pass1"
    /\ Exhausted
    /\ LET qs == QubitsAfterFirstPass(qubits)
       IN  /\ qubits' = qs
           /\ ops' = ops \o Potential(kind, qs, n_qubits, 0)
    /\ IF HasSecondPass(kind)
       THEN /\ pc' = "pass2"
            /\ order' = Identity(n_qubits)
            /\ cursor' = 1
            /\ offset' = 1
            /\ calls' = <<>>
            /\ passes' = passes + 1
       ELSE /\ pc' = "tail"
            /\ UNCHANGED <<order, cursor, offset, calls, passes>>
    /\ UNCHANGED <<kind, n_qubits, control_qubit, n_steps, omit_final_swaps,
                   tracked, holds, steps_done>>
    /\ UNCHANGED gvars

\* The second pass of a symmetric step is over.
EndSecondPass ==
    /\ pc = "pass2"
    /\ Exhausted
    /\ pc' = "tail"
    /\ UNCHANGED <<kind, n_qubits, control_qubit, n_steps, omit_final_swaps,
                   tracked, qubits, order, cursor, offset, calls, ops, passes,
                   holds, steps_done>>
    /\ UNCHANGED gvars

\* The end of trotter_step: the controlled classes yield the phase from
\* the constant term, then the generator is exhausted.
EndTrotterStep ==
    /\ pc = "tail"
    /\ ops' = IF kind \in ControlledKinds THEN Append(ops, ConstantPhase)
              ELSE ops
    /\ pc' = "step_done"
    /\ UNCHANGED <<kind, n_qubits, control_qubit, n_steps, omit_final_swaps,
                   tracked, qubits, order, cursor, offset, calls, passes,
                   holds, steps_done>>
    /\ UNCHANGED gvars

\* The driver applies step_qubit_permutation after the step.
PermuteAfterStep ==
    /\ pc = "step_done"
    /\ tracked' = StepQubitPermutation(kind, tracked)
    /\ control_qubit' = StepControlPermutation(kind, control_qubit)
    /\ steps_done' = steps_done + 1
    /\ pc' = "idle"
    /\ UNCHANGED <<kind, n_qubits, n_steps, omit_final_swaps, qubits, order,
                   cursor, offset, calls, ops, passes, holds>>
    /\ UNCHANGED gvars

\* finish(qubits, n_steps, control_qubit, omit_final_swaps) on the
\* tracked list, after the last step.
Finish ==
    /\ pc = "idle"
    /\ steps_done = n_steps
    /\ ops' = <<>>
    /\ calls' = <<>>
    /\ qubits' = tracked
    /\ order' = Identity(n_qubits)
    /\ cursor' = 1
    /\ offset' = 0
    /\ IF FinishSwaps(kind, n_steps, omit_final_swaps)
       THEN pc' = "finish_pass" /\ passes' = 1
       ELSE pc' = "finished" /\ passes' = 0
    /\ UNCHANGED <<kind, n_qubits, control_qubit, n_steps, omit_final_swaps,
                   tracked, holds, steps_done>>
    /\ UNCHANGED gvars

\* The corrective pass of finish is over.
EndFinish ==
    /\ pc = "finish_pass"
    /\ Exhausted
    /\ pc' = "finished"
    /\ UNCHANGED <<kind, n_qubits, control_qubit, n_steps, omit_final_swaps,
                   tracked, qubits, order, cursor, offset, calls, ops, passes,
                   holds, steps_done>>
    /\ UNCHANGED gvars

Next ==
    \/ BeginTrotterStep
    \/ SwapNetworkPair
    \/ OneBodyPotential
    \/ EndSecondPass
    \/ EndTrotterStep
    \/ PermuteAfterStep
    \/ Finish
    \/ EndFinish

Spec == Init /\ [][Next]_vars

\* The Trotter variables while only the Givens network is explored
TrotterNotRunning ==
    /\ kind = "symmetric"
    /\ n_qubits = 1
    /\ control_qubit = NoneQubit
    /\ n_steps = 0
    /\ omit_final_swaps = FALSE
    /\ tracked = Identity(1)
    /\ qubits = Identity(1)
    /\ pc = "off"
    /\ order = Identity(1)
    /\ cursor = 1
    /\ offset = 0
    /\ calls = <<>>
    /\ ops = <<>>
    /\ passes = 0
    /\ holds = Identity(1)
    /\ steps_done = 0

\* ------------------------------------------------------------------------
\* Part II.  Optimal Givens rotation network
\* ------------------------------------------------------------------------
\* Exact complex arithmetic.  <<x, y, d>> is (x + iy)/d with d > 0 and
\* gcd(x, y, d) = 1, so that equal numbers are equal tuples.
RECURSIVE GCD(_, _)
GCD(a, b) == IF b = 0 THEN a ELSE GCD(b, a % b)

LCM(a, b) == (a \div GCD(a, b)) * b

Scaled(x, y, d, g) == <<x \div g, y \div g, d \div g>>

CNorm(x, y, d) == Scaled(x, y, d, GCD(GCD(Abs(x), Abs(y)), d))

Zero == <<0, 0, 1>>

One == <<1, 0, 1>>

CAddOver(u, v, d) ==
    CNorm(u[1] * (d \div u[3]) + v[1] * (d \div v[3]),
          u[2] * (d \div u[3]) + v[2] * (d \div v[3]), d)

CAdd(u, v) == CAddOver(u, v, LCM(u[3], v[3]))

\* The product, after g1 was cancelled between the numerators of u and
\* the denominator of v, and g2 the other way round
CMulReduced(u, v, g1, g2) ==
    CNorm((u[1] \div g1) * (v[1] \div g2) - (u[2] \div g1) * (v[2] \div g2),
          (u[1] \div g1) * (v[2] \div g2) + (u[2] \div g1) * (v[1] \div g2),
          (u[3] \div g2) * (v[3] \div g1))

CMul(u, v) ==
    CMulReduced(u, v, GCD(GCD(Abs(u[1]), Abs(u[2])), v[3]),
                GCD(GCD(Abs(v[1]), Abs(v[2])), u[3]))

CNeg(u) == <<0 - u[1], 0 - u[2], u[3]>>

\* z.conj()
CConj(u) == <<u[1], 0 - u[2], u[3]>>

\* numpy.real(z)
CReal(u) == CNorm(u[1], 0, u[3])

\* abs(numpy.imag(z)) < EQ_TOLERANCE, for the exact values of the model
ImagIsZero(u) == u[2] = 0

\* abs(z) < EQ_TOLERANCE, for the exact values of the model
IsZero(u) == u[1] = 0 /\ u[2] = 0

\* Largest r with r * r <= n, by bisection between lo and hi
RECURSIVE SqrtBetween(_, _, _)
SqrtBetween(n, lo, hi) ==
    IF lo >= hi THEN lo
    ELSE IF ((lo + hi + 1) \div 2) * ((lo + hi + 1) \div 2) <= n
         THEN SqrtBetween(n, (lo + hi + 1) \div 2, hi)
         ELSE SqrtBetween(n, lo, ((lo + hi + 1) \div 2) - 1)

FloorSqrt(n) == SqrtBetween(n, 0, IF n < 46340 THEN n ELSE 46340)

IsRootOf(r, n) == r * r = n

IsSquare(n) == IsRootOf(FloorSqrt(n), n)

\* The fraction n/d in lowest terms, as <<numerator, denominator>>
FractionBy(n, d, g) == <<n \div g, d \div g>>

Fraction(n, d) == FractionBy(n, d, GCD(n, d))

AddFractionsOver(p, q, d) ==
    Fraction(p[1] * (d \div p[2]) + q[1] * (d \div q[2]), d)

AddFractions(p, q) == AddFractionsOver(p, q, LCM(p[2], q[2]))

\* abs(z)**2
AbsSquared(u) == Fraction(u[1] * u[1] + u[2] * u[2], u[3] * u[3])

\* abs(a)**2 + abs(b)**2
NormSquared(a, b) == AddFractions(AbsSquared(a), AbsSquared(b))

\* numpy.sqrt of a fraction, a real number
SqrtFraction(q) == CNorm(FloorSqrt(q[1]), 0, FloorSqrt(q[2]))

IsSquareFraction(q) == IsSquare(q[1]) /\ IsSquare(q[2])

\* abs(z), a real number
CAbs(u) == SqrtFraction(AbsSquared(u))

\* u / r for a real r > 0
CDivReal(u, r) == CMul(u, <<r[3], 0, r[1]>>)

\* The square roots of givens_matrix_elements(a, b) are rational
Representable(a, b) ==
    /\ IsSquareFraction(AbsSquared(a))
    /\ IsSquareFraction(AbsSquared(b))
    /\ IsSquareFraction(NormSquared(a, b))

Mat2(g00, g01, g10, g11) ==
    [r \in 0..1 |-> [c \in 0..1 |->
        IF r = 0 THEN (IF c = 0 THEN g00 ELSE g01)
        ELSE (IF c = 0 THEN g10 ELSE g11)]]

\* m.T
Transpose2(m) == Mat2(m[0][0], m[1][0], m[0][1], m[1][1])

\* m.conj()
Conj2(m) == Mat2(CConj(m[0][0]), CConj(m[0][1]), CConj(m[1][0]),
                 CConj(m[1][1]))

\* m.dot(k)
Dot2(m, k) ==
    [r \in 0..1 |-> [c \in 0..1 |->
        CAdd(CMul(m[r][0], k[0][c]), CMul(m[r][1], k[1][c]))]]

\* numpy.diag([x, y])
Diag2(x, y) == Mat2(x, Zero, Zero, y)

\* givens_matrix_elements, both arguments nonzero: cosine, sine, phase
GeneralParameters(a, b, abs_a, abs_b, denominator) ==
    [cosine |-> CDivReal(abs_b, denominator),
     sine |-> CDivReal(abs_a, denominator),
     phase |-> CMul(CDivReal(a, abs_a), CConj(CDivReal(b, abs_b)))]

\* givens_matrix_elements: cosine, sine and phase
GivensParameters(a, b) ==
    IF IsZero(a) THEN [cosine |-> One, sine |-> Zero, phase |-> One]
    ELSE IF IsZero(b) THEN [cosine |-> Zero, sine |-> One, phase |-> One]
    ELSE GeneralParameters(a, b, CAbs(a), CAbs(b),
                           SqrtFraction(NormSquared(a, b)))

\* givens_matrix_elements: the matrix of cosine, sine, phase * sine and
\* phase * cosine
GivensMatrix(cosine, sine, phase_sine, phase_cosine, both_real, which) ==
    IF which = "left"
    THEN IF both_real
         THEN Mat2(cosine, CNeg(phase_sine), phase_sine, cosine)
         ELSE Mat2(cosine, CNeg(phase_sine), sine, phase_cosine)
    ELSE IF both_real
         THEN Mat2(sine, phase_cosine, CNeg(phase_cosine), sine)
         ELSE Mat2(sine, phase_cosine, cosine, CNeg(phase_sine))

GivensMatrixOf(g, both_real, which) ==
    GivensMatrix(g.cosine, g.sine, CMul(g.phase, g.sine),
                 CMul(g.phase, g.cosine), both_real, which)

\* givens_matrix_elements(a, b, which): which = "left" zeroes a, which =
\* "right" zeroes b, when the matrix multiplies the column vector (a, b).
givens_matrix_elements(a, b, which) ==
    GivensMatrixOf(GivensParameters(a, b), ImagIsZero(a) /\ ImagIsZero(b),
                   which)

\* givens_rotate(operator, givens_rotation, i, j, which)
givens_rotate(operator, g, i, j, which) ==
    IF which = "row"
    THEN [operator EXCEPT
            ![i] = [c \in DOMAIN operator[i] |->
                       CAdd(CMul(g[0][0], operator[i][c]),
                            CMul(g[0][1], operator[j][c]))],
            ![j] = [c \in DOMAIN operator[j] |->
                       CAdd(CMul(g[1][0], operator[i][c]),
                            CMul(g[1][1], operator[j][c]))]]
    ELSE [r \in DOMAIN operator |->
            [operator[r] EXCEPT
               ![i] = CAdd(CMul(g[0][0], operator[r][i]),
                           CMul(CConj(g[0][1]), operator[r][j])),
               ![j] = CAdd(CMul(g[1][0], operator[r][i]),
                           CMul(CConj(g[1][1]), operator[r][j]))]]

\* numpy.angle(z), kept as the direction of z: the primitive integer
\* vector along (re z, im z); numpy.angle(0) is 0, the direction of 1.
Angle(z) ==
    IF IsZero(z) THEN <<1, 0>>
    ELSE LET g == GCD(Abs(z[1]), Abs(z[2]))
         IN  <<z[1] \div g, z[2] \div g>>

\* numpy.isclose(phi, 0.0)
AngleIsZero(phi) == phi = <<1, 0>>


\* --- The loop of optimal_givens_decomposition ---------------------------
\* `range(0, i)` for odd i, `range(1, i + 1)` for even i: first j
FirstJ(i) == IF i % 2 = 1 THEN 0 ELSE 1

\* `range(0, i)` for odd i, `range(1, i + 1)` for even i: last j
LastJ(i) == IF i % 2 = 1 THEN i - 1 ELSE i

\* Odd i: the row of both arguments of givens_matrix_elements
RightRow(n, i, j) == n - j - 1

\* Variant: the columns are walked from the left
RightPair_FromLeft(n, i, j) == <<j, j + 1>>

\* Odd i: the column pair that is rotated; the first argument is in its
\* first column and the second argument in its second column
RightPair(n, i, j) == <<i - j - 1, i - j>>

\* Even i: the column of both arguments of givens_matrix_elements
LeftCol(n, i, j) == j - 1

\* Variant: the rows are walked from the bottom
LeftPair_FromBottom(n, i, j) == <<n - j - 1, n - j>>

\* Even i: the row pair that is rotated; the first argument is in its
\* first row and the second argument in its second row
LeftPair(n, i, j) == <<n + j - i - 2, n + j - i - 1>>

\* Variant: the lists of the previous call are used again
NewList_Kept(old) == old

\* `right_rotations = []`, `left_rotations = []`: new lists at every call
NewList(old) == <<>>

Rotation(gmat, pair) == [gmat |-> gmat, i |-> pair[1], j |-> pair[2]]

\* reversed(seq)
ReversedSeq(seq) == [k \in 1..Len(seq) |-> seq[Len(seq) + 1 - k]]

\* numpy.diag(unitary)
Diagonal(m) == [k \in DOMAIN m |-> m[k][k]]

GOp(gate, on, angle) == [gate |-> gate, on |-> on, angle |-> angle]

\* (i, j, theta, phi) of one rotation; theta = arcsin(x) is kept as x
RotationAngles(rot) ==
    [i |-> rot.i, j |-> rot.j, theta |-> CReal(rot.gmat[1][0]),
     phi |-> Angle(rot.gmat[1][1])]

\* Variant: the right rotations are not conjugate-transposed
OrderedRotations_Plain(new_left, right) ==
    ReversedSeq(new_left) \o ReversedSeq(right)

\* The list the last loop walks over: reversed(new_left_rotations), then
\* reversed(right_rotations) with every matrix conjugate-transposed
OrderedRotations(new_left, right) ==
    ReversedSeq(new_left) \o
    [k \in 1..Len(right) |->
        LET x == ReversedSeq(right)[k]
        IN  [gmat |-> Transpose2(Conj2(x.gmat)), i |-> x.i, j |-> x.j]]

\* The convention check on one matrix of the ordered list
FirstColumnReal(gmat) == ImagIsZero(gmat[0][0]) /\ ImagIsZero(gmat[1][0])

\* Variant: the Z phase is yielded after the rotation
RotationOps_PhaseAfter(r) ==
    <<GOp("Ryxxy", <<r.i, r.j>>, CNeg(r.theta))>>
    \o (IF AngleIsZero(r.phi) THEN <<>> ELSE <<GOp("Z", <<r.j>>, r.phi)>>)

\* The operations of one (i, j, theta, phi): the Z phase unless phi is
\* close to 0, then the rotation by -theta on (qubits[i], qubits[j])
RotationOps(r) ==
    (IF AngleIsZero(r.phi) THEN <<>> ELSE <<GOp("Z", <<r.j>>, r.phi)>>)
    \o <<GOp("Ryxxy", <<r.i, r.j>>, CNeg(r.theta))>>

RECURSIVE EmitRotations(_, _)
EmitRotations(rots, k) ==
    IF k > Len(rots) THEN <<>>
    ELSE RotationOps(rots[k]) \o EmitRotations(rots, k + 1)

\* `for idx, phase in enumerate(phases)`: one Z phase per qubit
EmitPhases(ph) ==
    [k \in 1..Cardinality(DOMAIN ph) |->
        GOp("Z", <<k - 1>>, Angle(ph[k - 1]))]

\* --- The matrices the calls are given ------------------------------------
\* Unitary matrices with exact entries: a diagonal of unit phases mixed
\* by 2 x 2 unitary blocks on adjacent rows and columns.
Block(name) ==
    CASE name = "id" -> Mat2(One, Zero, Zero, One)
      [] name = "swap" -> Mat2(Zero, <<0 - 1, 0, 1>>, One, Zero)
      [] name = "r34" -> Mat2(<<3, 0, 5>>, <<0 - 4, 0, 5>>,
                              <<4, 0, 5>>, <<3, 0, 5>>)
      [] name = "r43" -> Mat2(<<4, 0, 5>>, <<3, 0, 5>>,
                              <<0 - 3, 0, 5>>, <<4, 0, 5>>)
      [] name = "c34" -> Mat2(<<3, 0, 5>>, <<0, 4, 5>>,
                              <<0, 4, 5>>, <<3, 0, 5>>)
      [] name = "c513" -> Mat2(<<5, 0, 13>>, <<0, 0 - 12, 13>>,
                               <<0, 0 - 12, 13>>, <<5, 0, 13>>)

UnitPhases == << One, <<0, 1, 1>>, <<0 - 1, 0, 1>>, <<0, 0 - 1, 1>>,
                 <<3, 4, 5>> >>

Patterns == 0..5

PhasePatterns == 0..3

BlockAt(pat, q) ==
    CASE pat = 0 -> "id"
      [] pat = 1 -> "swap"
      [] pat = 2 -> IF q > 6 THEN "id"
                    ELSE <<"r34", "c34", "r43">>[((q - 1) % 3) + 1]
      [] pat = 3 -> IF q > 6 THEN "swap"
                    ELSE <<"c34", "c513", "r34", "r43", "c34", "r34">>[q]
      [] pat = 4 -> <<"r34", "swap">>[((q - 1) % 2) + 1]
      [] pat = 5 -> IF q > 6 THEN "swap"
                    ELSE <<"id", "c34", "swap">>[((q - 1) % 3) + 1]

\* Where the blocks go: adjacent column pairs and row pairs, in the order
\* of a Givens network for n rows
RECURSIVE Network(_, _, _)
Network(n, i, j) ==
    IF i >= n THEN <<>>
    ELSE IF i % 2 = 1
    THEN <<[side |-> "col", k |-> i - j - 1]>> \o
         (IF j = i - 1 THEN Network(n, i + 1, 1) ELSE Network(n, i, j + 1))
    ELSE <<[side |-> "row", k |-> n + j - i - 2]>> \o
         (IF j = i THEN Network(n, i + 1, 0) ELSE Network(n, i, j + 1))

\* m times the block t on columns k, k + 1
MixColumns(m, t, k) ==
    [r \in DOMAIN m |->
        [m[r] EXCEPT
           ![k] = CAdd(CMul(m[r][k], t[0][0]), CMul(m[r][k + 1], t[1][0])),
           ![k + 1] = CAdd(CMul(m[r][k], t[0][1]),
                           CMul(m[r][k + 1], t[1][1]))]]

\* the block t on rows k, k + 1 times m
MixRows(m, t, k) ==
    [m EXCEPT
       ![k] = [c \in DOMAIN m[k] |->
                  CAdd(CMul(t[0][0], m[k][c]), CMul(t[0][1], m[k + 1][c]))],
       ![k + 1] = [c \in DOMAIN m[k] |->
                  CAdd(CMul(t[1][0], m[k][c]), CMul(t[1][1], m[k + 1][c]))]]

MixOne(m, t, item) ==
    IF item.side = "col" THEN MixColumns(m, t, item.k)
    ELSE MixRows(m, t, item.k)

RECURSIVE Mixed(_, _, _, _)
Mixed(m, net, pat, q) ==
    IF q < 1 THEN m
    ELSE Mixed(MixOne(m, Block(BlockAt(pat, q)), net[q]), net, pat, q - 1)

MixedAll(m, net, pat) == Mixed(m, net, pat, Len(net))

PhaseDiagonal(n, d) ==
    [r \in 0..(n - 1) |-> [c \in 0..(n - 1) |->
        IF r = c THEN UnitPhases[((r * d + d) % Len(UnitPhases)) + 1]
        ELSE Zero]]

InputUnitary(n, pat, d) ==
    MixedAll(PhaseDiagonal(n, d), Network(n, 1, 0), pat)

InputUnitaries ==
    {InputUnitary(n, pat, d) :
        n \in 2..MaxGivensN, pat \in Patterns, d \in PhasePatterns}

\* --- The calls -------------------------------------------------------------
GivensInit ==
    /\ TrotterNotRunning
    /\ arg_value \in InputUnitaries
    /\ unitary = arg_value
    /\ N = 0
    /\ gi = 0
    /\ gj = 0
    /\ right_rotations = <<>>
    /\ left_rotations = <<>>
    /\ new_left_rotations = <<>>
    /\ rotations = <<>>
    /\ phases = <<>>
    /\ gops = <<>>
    /\ gpc = "call"
    /\ targeted = <<>>
    /\ call_no = 1
    /\ same_array = FALSE
    /\ first_ops = <<>>

\* The generator starts: N, the two empty lists, the first (i, j).
BeginDecomposition ==
    /\ gpc = "call"
    /\ N' = Cardinality(DOMAIN unitary)
    /\ right_rotations' = NewList(right_rotations)
    /\ left_rotations' = NewList(left_rotations)
    /\ new_left_rotations' = <<>>
    /\ gops' = <<>>
    /\ targeted' = <<>>
    /\ gi' = 1
    /\ gj' = FirstJ(1)
    /\ gpc' = IF 1 >= N' THEN "migrate" ELSE "eliminate"
    /\ UNCHANGED <<unitary, arg_value, rotations, phases, call_no,
                   same_array, first_ops>>
    /\ UNCHANGED tvars

\* The loop variables after the body of iteration (gi, gj)
AdvanceLoop ==
    IF gj < LastJ(gi)
    THEN gi' = gi /\ gj' = gj + 1 /\ gpc' = "eliminate"
    ELSE /\ gi' = gi + 1
         /\ gj' = FirstJ(gi + 1)
         /\ gpc' = IF gi + 1 >= N THEN "migrate" ELSE "eliminate"

\* Odd i, the body: gmat.T is recorded and the columns are rotated by
\* gmat.conj().
RightRotate(row, pair, gmat) ==
    /\ right_rotations' =
           Append(right_rotations, Rotation(Transpose2(gmat), pair))
    /\ unitary' = givens_rotate(unitary, Conj2(gmat), pair[1], pair[2], "col")
    /\ targeted' = Append(targeted,
           [r |-> row, c |-> pair[1], side |-> "right", i |-> gi,
            k |-> pair[1], k1 |-> pair[2]])
    /\ AdvanceLoop

RightEliminate(row, pair, a, b) ==
    IF ~Representable(a, b)
    THEN /\ gpc' = "inexact"
         /\ UNCHANGED <<unitary, right_rotations, targeted, gi, gj>>
    ELSE RightRotate(row, pair, givens_matrix_elements(a, b, "left"))

RightAt(row, pair) ==
    RightEliminate(row, pair, unitary[row][pair[1]], unitary[row][pair[2]])

\* Odd i: one elimination by a rotation of two adjacent columns.
RightElimination ==
    /\ gpc = "eliminate"
    /\ gi % 2 = 1
    /\ RightAt(RightRow(N, gi, gj), RightPair(N, gi, gj))
    /\ UNCHANGED <<arg_value, N, left_rotations, new_left_rotations,
                   rotations, phases, gops, call_no, same_array, first_ops>>
    /\ UNCHANGED tvars

\* Even i, the body: gmat is recorded and the rows are rotated by gmat.
LeftRotate(col, pair, gmat) ==
    /\ left_rotations' = Append(left_rotations, Rotation(gmat, pair))
    /\ unitary' = givens_rotate(unitary, gmat, pair[1], pair[2], "row")
    /\ targeted' = Append(targeted,
           [r |-> pair[2], c |-> col, side |-> "left", i |-> gi,
            k |-> pair[1], k1 |-> pair[2]])
    /\ AdvanceLoop

LeftEliminate(col, pair, a, b) ==
    IF ~Representable(a, b)
    THEN /\ gpc' = "inexact"
         /\ UNCHANGED <<unitary, left_rotations, targeted, gi, gj>>
    ELSE LeftRotate(col, pair, givens_matrix_elements(a, b, "right"))

LeftAt(col, pair) ==
    LeftEliminate(col, pair, unitary[pair[1]][col], unitary[pair[2]][col])

\* Even i: one elimination by a rotation of two adjacent rows.
LeftElimination ==
    /\ gpc = "eliminate"
    /\ gi % 2 = 0
    /\ LeftAt(LeftCol(N, gi, gj), LeftPair(N, gi, gj))
    /\ UNCHANGED <<arg_value, N, right_rotations, new_left_rotations,
                   rotations, phases, gops, call_no, same_array, first_ops>>
    /\ UNCHANGED tvars

\* The end of one phase migration: the consistency check, the two
\* diagonal entries, the new rotation.
MigrateStore(i, j, matrix_to_decompose, new_givens_matrix, new_phase_matrix) ==
    IF Dot2(new_phase_matrix, Conj2(new_givens_matrix)) # matrix_to_decompose
    THEN /\ gpc' = "GivensTranspositionError"
         /\ UNCHANGED <<unitary, new_left_rotations>>
    ELSE /\ unitary' = [unitary EXCEPT ![i][i] = new_phase_matrix[0][0],
                                       ![j][j] = new_phase_matrix[1][1]]
         /\ new_left_rotations' =
                Append(new_left_rotations,
                       Rotation(Conj2(new_givens_matrix), <<i, j>>))
         /\ gpc' = "migrate"

MigrateWith(i, j, matrix_to_decompose, new_givens_matrix) ==
    MigrateStore(i, j, matrix_to_decompose, new_givens_matrix,
                 Dot2(matrix_to_decompose, Transpose2(new_givens_matrix)))

MigrateMatrix(i, j, matrix_to_decompose) ==
    IF ~Representable(matrix_to_decompose[1][0], matrix_to_decompose[1][1])
    THEN /\ gpc' = "inexact"
         /\ UNCHANGED <<unitary, new_left_rotations>>
    ELSE MigrateWith(i, j, matrix_to_decompose,
                     givens_matrix_elements(matrix_to_decompose[1][0],
                                            matrix_to_decompose[1][1],
                                            "left"))

\* matrix_to_decompose = left_gmat.conj().T.dot(phase_matrix)
MigrateRotation(rot) ==
    MigrateMatrix(rot.i, rot.j,
                  Dot2(Transpose2(Conj2(rot.gmat)),
                       Diag2(unitary[rot.i][rot.i], unitary[rot.j][rot.j])))

\* One iteration of the loop over reversed(left_rotations): the phases
\* of rows i and j move from the right of the rotation to its left.
PhaseMigration ==
    /\ gpc = "migrate"
    /\ Len(new_left_rotations) < Len(left_rotations)
    /\ MigrateRotation(left_rotations[Len(left_rotations)
                                      - Len(new_left_rotations)])
    /\ UNCHANGED <<arg_value, N, gi, gj, right_rotations, left_rotations,
                   rotations, phases, gops, targeted, call_no, same_array,
                   first_ops>>
    /\ UNCHANGED tvars

\* (i, j, theta, phi) of every matrix of the ordered list, with the
\* convention check
CollectFrom(ordered) ==
    IF \E k \in 1..Len(ordered) : ~FirstColumnReal(ordered[k].gmat)
    THEN gpc' = "GivensMatrixError" /\ rotations' = <<>>
    ELSE /\ rotations' = [k \in 1..Len(ordered) |->
                             RotationAngles(ordered[k])]
         /\ gpc' = "emit"

\* phases = numpy.diag(unitary), then the loop over the ordered list.
CollectRotations ==
    /\ gpc = "migrate"
    /\ Len(new_left_rotations) = Len(left_rotations)
    /\ phases' = Diagonal(unitary)
    /\ CollectFrom(OrderedRotations(new_left_rotations, right_rotations))
    /\ UNCHANGED <<unitary, arg_value, N, gi, gj, right_rotations,
                   left_rotations, new_left_rotations, gops, targeted,
                   call_no, same_array, first_ops>>
    /\ UNCHANGED tvars

\* The two yielding loops: reversed(rotations), then the phases.
Emit ==
    /\ gpc = "emit"
    /\ gops' = EmitRotations(ReversedSeq(rotations), 1) \o EmitPhases(phases)
    /\ gpc' = "done"
    /\ UNCHANGED <<unitary, arg_value, N, gi, gj, right_rotations,
                   left_rotations, new_left_rotations, rotations, phases,
                   targeted, call_no, same_array, first_ops>>
    /\ UNCHANGED tvars

\* The caller, having consumed the sequence, calls again: with the array
\* it passed before, or with a new copy of the matrix it built.
CallAgain ==
    /\ gpc = "done"
    /\ call_no = 1
    /\ first_ops' = gops
    /\ call_no' = 2
    /\ same_array' \in BOOLEAN
    /\ unitary' = IF same_array' THEN unitary ELSE arg_value
    /\ gpc' = "call"
    /\ UNCHANGED <<arg_value, N, gi, gj, right_rotations, left_rotations,
                   new_left_rotations, rotations, phases, gops, targeted>>
    /\ UNCHANGED tvars

GivensNext ==
    \/ BeginDecomposition
    \/ RightElimination
    \/ LeftElimination
    \/ PhaseMigration
    \/ CollectRotations
    \/ Emit
    \/ CallAgain

GivensSpec == GivensInit /\ [][GivensNext]_vars

\* ------------------------------------------------------------------------
\* Properties of the swap network Trotter steps
\* ------------------------------------------------------------------------
Modes == 0..(n_qubits - 1)

\* Number of callback calls of the running pass on the unordered pair {p, q}
PairCount(p, q) ==
    Cardinality({idx \in 1..Len(calls) :
                    {calls[idx].p, calls[idx].q} = {p, q}})

Started == pc \in {"pass1", "pass2", "tail", "step_done", "raised"}

\* C1: in every swap network pass (first pass, offset second pass, finish
\* pass) each callback call is on two different logical indices that are,
\* at that moment, carried by the two physically adjacent qubits it is
\* given; no unordered pair is called twice; and when the pass is over
\* every unordered pair has been called exactly once and the logical
\* order is reversed (the mode that started at position k is at position
\* N-1-k of the list the pass ran over).
C1_SwapNetworkPass ==
    /\ \A idx \in 1..Len(calls) :
          LET c == calls[idx]
          IN  /\ c.p # c.q
              /\ c.ha = c.p
              /\ c.hb = c.q
              /\ Abs(c.a - c.b) = 1
    /\ \A p \in Modes : \A q \in Modes : p < q => PairCount(p, q) <= 1
    /\ (InPass /\ Exhausted) =>
          /\ \A p \in Modes : \A q \in Modes : p < q => PairCount(p, q) = 1
          /\ \A k \in Modes : order[n_qubits - 1 - k] = k
          /\ \A k \in Modes : holds[qubits[n_qubits - 1 - k]] = k

C1_Witness ==
    /\ pc = "pass2"
    /\ Exhausted
    /\ offset = 1
    /\ n_qubits >= 3
    /\ Len(calls) = (n_qubits * (n_qubits - 1)) \div 2

\* C3: with the asymmetric classes the tracked list names, between steps,
\* the qubit of every logical mode; after two steps it is the original
\* list; and after finish without omit_final_swaps every logical mode is
\* back on the physical qubit it started on.
C3_AsymmetricRestoresOrder ==
    kind \in AsymmetricKinds =>
        /\ pc = "idle" => \A i \in Modes : holds[tracked[i]] = i
        /\ (pc = "idle" /\ steps_done = 2) => tracked = Identity(n_qubits)
        /\ (pc = "finished" /\ ~omit_final_swaps) =>
               holds = Identity(n_qubits)

C3_Witness ==
    /\ kind = "controlled_asymmetric"
    /\ pc = "finished"
    /\ ~omit_final_swaps
    /\ steps_done >= 3
    /\ steps_done % 2 = 1
    /\ n_qubits >= 3
    /\ Len(ops) > 0

\* C4: finish of the asymmetric classes emits one swap network pass made
\* of fermionic swaps only when n_steps is odd and omit_final_swaps is
\* false, and the empty sequence in every other case.
C4_FinishEmission ==
    (kind \in AsymmetricKinds /\ pc = "finished") =>
        IF n_steps % 2 = 1 /\ ~omit_final_swaps
        THEN /\ passes = 1
             /\ Len(ops) = (n_qubits * (n_qubits - 1)) \div 2
             /\ Len(calls) = Len(ops)
             /\ \A idx \in 1..Len(ops) : ops[idx].gate = "FSWAP"
        ELSE /\ passes = 0
             /\ ops = <<>>

C4_Witness ==
    /\ kind = "asymmetric"
    /\ pc = "finished"
    /\ n_steps % 2 = 1
    /\ ~omit_final_swaps
    /\ n_qubits >= 3
    /\ Len(ops) >= 3

\* C5: once all operations of a symmetric or controlled symmetric step
\* have been applied, every logical mode is on the physical qubit it was
\* on before the step, so the untracked list stays right step after step.
C5_SymmetricStepRestoresOrder ==
    (kind \in SymmetricKinds /\ pc \in {"tail", "step_done", "idle", "finished"}) =>
        /\ holds = Identity(n_qubits)
        /\ tracked = Identity(n_qubits)

C5_Witness ==
    /\ kind = "controlled_symmetric"
    /\ pc = "step_done"
    /\ steps_done >= 1
    /\ n_qubits >= 3
    /\ passes = 2

\* C6 (as stated): whatever the step kind, trotter_step called without a
\* control qubit raises the missing-control error.
C6_AllKindsRaise ==
    (Started /\ ~IsQid(control_qubit)) => pc = "raised"

\* C6 (amended): trotter_step called without a control qubit raises the
\* missing-control error exactly for the two controlled kinds; the
\* symmetric and asymmetric kinds run without error.
C6_ControlledKindsRaise ==
    (Started /\ ~IsQid(control_qubit)) =>
        (pc = "raised" <=> kind \in ControlledKinds)

C6_Witness ==
    /\ kind = "controlled_asymmetric"
    /\ ~IsQid(control_qubit)
    /\ pc = "raised"
    /\ n_steps >= 1

\* C7: a controlled step without a control qubit has raised before any
\* operation was yielded: no operation, no callback call, no swap.
C7_NoPartialSequence ==
    (kind \in ControlledKinds /\ Started /\ ~IsQid(control_qubit)) =>
        /\ pc = "raised"
        /\ ops = <<>>
        /\ calls = <<>>
        /\ passes = 0
        /\ holds = Identity(n_qubits)

C7_Witness ==
    /\ kind = "controlled_symmetric"
    /\ ~IsQid(control_qubit)
    /\ pc = "raised"
    /\ ops = <<>>
    /\ n_qubits >= 2

\* M = N(N-1)/2, the number of callback calls of one pass
PairTotal == (n_qubits * (n_qubits - 1)) \div 2

\* The three rotations of the k-th callback call of the first pass, as
\* they lie in the yielded sequence (each call is followed by its swap)
FirstPassOps(k) == SubSeq(ops, 4 * (k - 1) + 1, 4 * (k - 1) + 3)

\* The second pass starts after the first pass and the N potential terms
SecondPassStart == 4 * PairTotal + n_qubits

SecondPassOps(k) ==
    SubSeq(ops, SecondPassStart + 4 * (k - 1) + 1,
           SecondPassStart + 4 * (k - 1) + 3)

\* The two swap-network qubits an operation acts on, without the control
Targets(op) == {op.on[Len(op.on) - 1], op.on[Len(op.on)]}

\* Same gate, same coefficient and factor, same logical pair, same
\* unordered physical pair
SameRotation(x, y) ==
    /\ x.gate = y.gate
    /\ x.scale2 = y.scale2
    /\ x.term = y.term
    /\ x.p = y.p
    /\ x.q = y.q
    /\ Targets(x) = Targets(y)
    /\ Len(x.on) = Len(y.on)

\* C11: in a symmetric or controlled symmetric step the k-th callback
\* call of the second pass is on the same logical pair and on the same
\* unordered pair of physical qubits as call M+1-k of the first pass, and
\* its three rotations are those of that call in reverse sequence: the
\* number-number term, then YX-XY, then XX+YY; the second pass makes M
\* calls.
C11_SecondPassMirrorsFirst ==
    (kind \in SymmetricKinds /\ pc \in {"pass2", "tail", "step_done"}) =>
        /\ Len(calls) <= PairTotal
        /\ (pc # "pass2" => Len(calls) = PairTotal)
        /\ \A k \in 1..Len(calls) :
              LET f == FirstPassOps(PairTotal + 1 - k)
                  s == SecondPassOps(k)
              IN  /\ \A r \in 1..3 : SameRotation(s[r], f[4 - r])
                  /\ <<s[1].term, s[2].term, s[3].term>> =
                         <<"two_body", "one_body_imag", "one_body_real">>
                  /\ <<f[1].term, f[2].term, f[3].term>> =
                         <<"one_body_real", "one_body_imag", "two_body">>
                  /\ {calls[k].p, calls[k].q} = {f[1].p, f[1].q}
                  /\ {calls[k].a, calls[k].b} = Targets(f[1])
                  /\ s[1].p = calls[k].p
                  /\ s[1].q = calls[k].q
                  /\ Targets(s[1]) = {calls[k].a, calls[k].b}

C11_Witness ==
    /\ kind = "controlled_symmetric"
    /\ pc = "tail"
    /\ n_qubits >= 4
    /\ Len(calls) = PairTotal
    /\ steps_done >= 1

\* A rotation of the one-body potential: a diagonal coefficient
IsPotential(op) == op.term = "one_body_real" /\ op.p = op.q

PotentialCount ==
    Cardinality({idx \in 1..Len(ops) : IsPotential(ops[idx])})

\* The qubit of the swap network a potential rotation acts on
PotentialTarget(op) == op.on[Len(op.on)]

\* C12: once the potential of a step is yielded, the step holds exactly N
\* potential rotations, and they are the N operations that follow the
\* 4M operations of the first pass (so they precede every operation of a
\* second pass); the i-th is -1 * Re(one_body[i, i]) * time on
\* qubits[N-1-i] of the list passed to trotter_step (with the control
\* qubit in the controlled kinds), and when it is yielded that qubit
\* holds logical mode i.
C12_OneBodyPotential ==
    pc \in {"pass2", "tail", "step_done"} =>
        /\ PotentialCount = n_qubits
        /\ Len(ops) >= 4 * PairTotal + n_qubits
        /\ \A idx \in 1..Len(ops) :
              IsPotential(ops[idx]) <=>
                  (idx > 4 * PairTotal /\ idx <= 4 * PairTotal + n_qubits)
        /\ \A i \in Modes :
              LET op == ops[4 * PairTotal + 1 + i]
              IN  /\ op.p = i
                  /\ op.scale2 = 0 - 2
                  /\ PotentialTarget(op) = tracked[n_qubits - 1 - i]
                  /\ IF kind \in ControlledKinds
                     THEN /\ op.gate = "rot11"
                          /\ op.on = <<control_qubit,
                                       tracked[n_qubits - 1 - i]>>
                     ELSE /\ op.gate = "rz"
                          /\ op.on = <<tracked[n_qubits - 1 - i]>>
        /\ ((pc = "pass2" /\ cursor = 1) \/
            (pc = "tail" /\ kind \in AsymmetricKinds)) =>
              \A i \in Modes : holds[tracked[n_qubits - 1 - i]] = i

C12_Witness ==
    /\ kind = "asymmetric"
    /\ pc = "tail"
    /\ steps_done = 1
    /\ n_qubits >= 3
    /\ tracked # Identity(n_qubits)
    /\ PotentialCount = n_qubits

\* ------------------------------------------------------------------------
\* Properties of the Givens network
\* ------------------------------------------------------------------------
Rows == 0..(N - 1)

\* m . m^dagger, entry (r, c)
RECURSIVE RowDot(_, _, _, _)
RowDot(m, r, c, k) ==
    IF k < 0 THEN Zero
    ELSE CAdd(CMul(m[r][k], CConj(m[c][k])), RowDot(m, r, c, k - 1))

IsUnitary(m) ==
    LET n == Cardinality(DOMAIN m)
    IN  \A r \in DOMAIN m : \A c \in DOMAIN m :
            RowDot(m, r, c, n - 1) = IF r = c THEN One ELSE Zero

\* The matrices of the model are unitary, stay unitary, and none of them
\* leaves the exact arithmetic or trips one of the two internal checks.
GivensWellFormed ==
    /\ IsUnitary(arg_value)
    /\ IsUnitary(unitary)
    /\ gpc \notin {"inexact", "GivensTranspositionError", "GivensMatrixError"}

\* The 2 x 2 rotation of (theta, phi): real first column (cos theta,
\* sin theta), lower right entry of angle phi.  A Z phase of angle phi on
\* qubit j multiplies row j by the unit of that direction; a rotation by
\* -theta on (i, j) mixes rows i and j.
ApplyOperation(v, op) ==
    IF op.gate = "Z"
    THEN LET j == op.on[1]
             x == op.angle[1]
             y == op.angle[2]
             e == CNorm(x, y, FloorSqrt(x * x + y * y))
         IN  [v EXCEPT ![j] = [c \in DOMAIN v[j] |-> CMul(e, v[j][c])]]
    ELSE LET sine == CNeg(op.angle)
             cosine == CNorm(FloorSqrt(sine[3] * sine[3] - sine[1] * sine[1]),
                             0, sine[3])
         IN  givens_rotate(v, Mat2(cosine, CNeg(sine), sine, cosine),
                           op.on[1], op.on[2], "row")

\* The product of the operations, the first one applied first
RECURSIVE Product(_, _, _)
Product(seq, k, v) ==
    IF k > Len(seq) THEN v
    ELSE Product(seq, k + 1, ApplyOperation(v, seq[k]))

IdentityMatrix(n) ==
    [r \in 0..(n - 1) |-> [c \in 0..(n - 1) |-> IF r = c THEN One ELSE Zero]]

\* v = u times a number
Proportional(v, u) ==
    \A r \in DOMAIN u : \A c \in DOMAIN u :
        \A r2 \in DOMAIN u : \A c2 \in DOMAIN u :
            CMul(v[r][c], u[r2][c2]) = CMul(u[r][c], v[r2][c2])

Dense(m) == \A r \in DOMAIN m : \A c \in DOMAIN m : ~IsZero(m[r][c])

LowerEntries == {e \in Rows \X Rows : e[1] > e[2]}

InLoopOrAfter == gpc \in {"eliminate", "migrate", "emit", "done"}

LoopOver == gpc \in {"migrate", "emit", "done"}

\* C2: the product of the emitted rotations and phases is a unitary
\* matrix equal to the matrix the call was given, up to a global phase.
C2_RoundTrip ==
    (gpc = "done" /\ (call_no = 1 \/ ~same_array)) =>
        LET v == Product(gops, 1, IdentityMatrix(N))
        IN  /\ IsUnitary(v)
            /\ Proportional(v, arg_value)

C2_Witness ==
    /\ gpc = "done"
    /\ call_no = 1
    /\ N >= 3
    /\ Dense(arg_value)
    /\ \E k \in 1..Len(gops) : gops[k].gate = "Z" /\ k < Len(gops) - N
    /\ Product(gops, 1, IdentityMatrix(N)) = arg_value

\* C8 (as stated): a second call with the same unitary argument yields
\* the sequence of the first call.
C8_SameArgumentSameSequence ==
    (gpc = "done" /\ call_no = 2) => gops = first_ops

\* C8 (amended): a second call with a new copy of the matrix the first
\* call was given yields the sequence of the first call.
C8_FreshCopySameSequence ==
    (gpc = "done" /\ call_no = 2 /\ ~same_array) => gops = first_ops

C8_Witness ==
    /\ gpc = "done"
    /\ call_no = 2
    /\ ~same_array
    /\ N >= 3
    /\ Len(gops) > N
    /\ unitary # arg_value

\* C9: the elimination steps aim at strictly lower triangular entries, at
\* no entry twice, at all N(N-1)/2 of them by the end of the loop; odd i
\* records right rotations and even i left rotations; every recorded
\* rotation is on an adjacent pair (k, k+1) inside 0..N-1.
C9_EliminationSchedule ==
    InLoopOrAfter =>
        /\ \A x \in 1..Len(targeted) :
              LET t == targeted[x]
              IN  /\ <<t.r, t.c>> \in LowerEntries
                  /\ t.side = "right" <=> t.i % 2 = 1
                  /\ t.side = "left" <=> t.i % 2 = 0
                  /\ \A y \in 1..Len(targeted) :
                        (x # y) => <<t.r, t.c>> # <<targeted[y].r, targeted[y].c>>
        /\ Len(right_rotations) =
              Cardinality({x \in 1..Len(targeted) : targeted[x].side = "right"})
        /\ Len(left_rotations) =
              Cardinality({x \in 1..Len(targeted) : targeted[x].side = "left"})
        /\ \A x \in 1..Len(right_rotations) :
              LET rot == right_rotations[x]
              IN  rot.j = rot.i + 1 /\ 0 <= rot.i /\ rot.j <= N - 1
        /\ \A x \in 1..Len(left_rotations) :
              LET rot == left_rotations[x]
              IN  rot.j = rot.i + 1 /\ 0 <= rot.i /\ rot.j <= N - 1
        /\ LoopOver =>
              /\ Len(targeted) = (N * (N - 1)) \div 2
              /\ {<<targeted[x].r, targeted[x].c>> : x \in 1..Len(targeted)}
                    = LowerEntries

C9_Witness ==
    /\ gpc = "migrate"
    /\ N >= 4
    /\ Len(targeted) = (N * (N - 1)) \div 2
    /\ Len(right_rotations) >= 4
    /\ Len(left_rotations) >= 2

\* C10: every entry an elimination step has aimed at is zero and stays
\* zero; before each step, an entry zeroed earlier that lies in one of
\* the two rows (columns) about to be rotated has a zero partner in the
\* other one; so after the loop the strictly lower triangle is zero.
C10_NoRefill ==
    InLoopOrAfter =>
        /\ \A x \in 1..Len(targeted) :
              unitary[targeted[x].r][targeted[x].c] = Zero
        /\ (gpc = "eliminate" /\ gi % 2 = 1) =>
              LET pair == RightPair(N, gi, gj)
              IN  \A x \in 1..Len(targeted) :
                     LET t == targeted[x]
                     IN  /\ t.c = pair[1] => unitary[t.r][pair[2]] = Zero
                         /\ t.c = pair[2] => unitary[t.r][pair[1]] = Zero
        /\ (gpc = "eliminate" /\ gi % 2 = 0) =>
              LET pair == LeftPair(N, gi, gj)
              IN  \A x \in 1..Len(targeted) :
                     LET t == targeted[x]
                     IN  /\ t.r = pair[1] => unitary[pair[2]][t.c] = Zero
                         /\ t.r = pair[2] => unitary[pair[1]][t.c] = Zero
        /\ LoopOver => \A e \in LowerEntries : unitary[e[1]][e[2]] = Zero

C10_Witness ==
    /\ gpc = "migrate"
    /\ call_no = 1
    /\ N >= 4
    /\ Dense(arg_value)
    /\ Len(new_left_rotations) = 0
    /\ \A e \in LowerEntries : unitary[e[1]][e[2]] = Zero

\* N(N-1)/2, the number of eliminations for N rows
RotationTotal == (N * (N - 1)) \div 2

IsRotationAt(idx) == gops[idx].gate = "Ryxxy"

\* The places of the two-qubit rotations in the emitted sequence
RotationPlaces ==
    SelectSeq([idx \in 1..Len(gops) |-> idx], IsRotationAt)

\* The emitted sequence without its last N operations
BodyLength == Len(gops) - N

\* The recorded rotation the k-th emitted rotation derives from: the
\* right rotations in recording order, then the left rotations in
\* reverse recording order
RecordedFor(k) ==
    IF k <= Len(right_rotations) THEN right_rotations[k]
    ELSE left_rotations[Len(left_rotations) + 1
                        - (k - Len(right_rotations))]

\* The matrix whose angles the k-th emitted rotation carries
MatrixFor(k) ==
    IF k <= Len(right_rotations)
    THEN Transpose2(Conj2(right_rotations[k].gmat))
    ELSE new_left_rotations[k - Len(right_rotations)].gmat

\* C13: a finished call has emitted exactly N(N-1)/2 two-qubit rotations
\* followed by exactly N Z phases on qubits 0..N-1 in index order (also
\* when the phase is zero).  The k-th rotation is on the adjacent ordered
\* pair of the rotation it derives from, the right rotations first in
\* recording order and then the left rotations in reverse recording
\* order, with angle -theta of its matrix; it is immediately preceded by
\* one Z phase of angle phi on the second qubit of the pair exactly when
\* phi is not 0, and nothing else is emitted.
C13_EmissionShape ==
    gpc = "done" =>
        /\ BodyLength >= 0
        /\ Len(RotationPlaces) = RotationTotal
        /\ Len(right_rotations) + Len(left_rotations) = RotationTotal
        /\ Len(new_left_rotations) = Len(left_rotations)
        /\ \A k \in 1..N :
              /\ gops[BodyLength + k].gate = "Z"
              /\ gops[BodyLength + k].on = <<k - 1>>
              /\ gops[BodyLength + k].angle = Angle(unitary[k - 1][k - 1])
        /\ \A k \in 1..Len(RotationPlaces) :
              LET at == RotationPlaces[k]
                  op == gops[at]
                  rec == RecordedFor(k)
                  phi == Angle(MatrixFor(k)[1][1])
                  before == IF k = 1 THEN 0 ELSE RotationPlaces[k - 1]
              IN  /\ at <= BodyLength
                  /\ op.on = <<rec.i, rec.j>>
                  /\ rec.j = rec.i + 1
                  /\ rec.i >= 0
                  /\ rec.j <= N - 1
                  /\ op.angle = CNeg(CReal(MatrixFor(k)[1][0]))
                  /\ IF AngleIsZero(phi)
                     THEN at = before + 1
                     ELSE /\ at = before + 2
                          /\ gops[at - 1].gate = "Z"
                          /\ gops[at - 1].on = <<rec.j>>
                          /\ gops[at - 1].angle = phi
        /\ (RotationTotal > 0 =>
               RotationPlaces[RotationTotal] = BodyLength)
        /\ (RotationTotal = 0 => BodyLength = 0)

C13_Witness ==
    /\ gpc = "done"
    /\ N >= 3
    /\ Dense(arg_value)
    /\ Len(left_rotations) > 0
    /\ Len(gops) > RotationTotal + N
    /\ Len(gops) < 2 * RotationTotal + N
    /\ \E k \in 1..N : AngleIsZero(gops[BodyLength + k].angle)

====
